---- MODULE Spec2Model ----
(***************************************************************************)
(* Model of glc's ALSA audio capture hook (src/glc/capture/audio_hook.c). *)
(*                                                                         *)
(* The hook owns a list of streams keyed by PCM handle.  Application       *)
(* threads call the producer entry points (open, close, hw_params,         *)
(* writei, writen, mmap_begin, mmap_commit); a control thread calls the    *)
(* facade (set_buffer, allow_skip, start, stop, destroy); every            *)
(* initialized stream has a capture thread that frames the scratch buffer  *)
(* into the downstream packet buffer.  Every process is modelled at the    *)
(* granularity of its accesses to shared state.                            *)
(***************************************************************************)
EXTENDS Integers, Sequences, FiniteSets, TLC

(* ------------------------------ bounds -------------------------------- *)

\* number of data-path calls (writei, writen, mmap_begin, mmap_commit)
MaxData == 2
\* number of hw_params calls
MaxHw == 2
\* data-path calls and hw_params calls of the two-thread specification
MaxDataMT == 3
MaxHwMT == 2
\* largest value of the global clock
MaxClock == 1
\* largest payload size, in frames, of one submission
MaxFrames == 1
MaxCopyChannels == 2
MaxCopyFrames == 2
MaxCopyOffset == 1
MaxHwCopy == 2

(* ------------------------------ universe ------------------------------ *)

Pcms == {"pcm"}
Threads == {"t1", "t2"}
Ctl == "ctl"
Procs == Threads \cup {Ctl}
WorkerSlots == {1, 2, 3}
Free == "free"

Formats == {"S16_LE", "U8"}
ChannelCounts == {2}
DataOps == {"writei", "writen", "mmap_begin", "mmap_commit"}
Accesses == {"RW_INTERLEAVED", "MMAP_COMPLEX", "RW_NONINTERLEAVED"}
FailPoints == {"none", "format", "access"}

(* ------------------------------ state --------------------------------- *)

VARIABLES
    to,          \* audio_hook->to is set
    capturing,   \* audio_hook->flags & AUDIO_HOOK_CAPTURING
    allow_skip,  \* audio_hook->flags & AUDIO_HOOK_ALLOW_SKIP
    started,     \* audio_hook->started
    slist,       \* audio_hook->stream: the stream list, head first
    streams,     \* pcm -> struct audio_hook_stream_s
    wk,          \* pcm -> slot -> capture thread (pc and its local hdr)
    th,          \* process -> position and locals of the call in progress
    out,         \* the packets written to the downstream buffer, in order
    clock,       \* last value glc_state_time returned
    audio_count, \* glc_state_audio_new's counter
    ndata,       \* data-path calls made so far
    nhw,         \* hw_params calls made so far
    submitted,   \* pcm -> payload ids of the submissions that succeeded
    epoch,       \* pcm -> number of stream initializations begun
    destroyed,   \* audio_hook_destroy has freed the hook
    crashed,     \* the process died on a NULL scratch buffer
    cp           \* one stream's mmap data path, byte by byte (SpecCopy)

vars == <<to, capturing, allow_skip, started, slist, streams, wk, th, out,
          clock, audio_count, ndata, nhw, submitted, epoch, destroyed, crashed,
          cp>>

hookv == <<to, capturing, allow_skip, started>>
histv == <<submitted, epoch, cp>>

(* ------------------------------ helpers ------------------------------- *)

Range(s) == {s[i] : i \in 1..Len(s)}

\* memset(find, 0, ...) and the sem/mutex/spin initializers of get_stream_alsa
NewStream ==
    [mode_async |-> FALSE, channels |-> 0, flags |-> {}, complex |-> FALSE,
     fmt |-> FALSE, initialized |-> FALSE, audio_i |-> 0,
     packet |-> "none",
     capture_finished |-> 0, capture_running |-> FALSE,
     capture_empty |-> 1, capture_full |-> 0,
     write_mutex |-> Free, write_spinlock |-> Free,
     capture_ready |-> FALSE,
     capture_data |-> 0, capture_null |-> TRUE,
     capture_size |-> 0, capture_data_size |-> 0, capture_time |-> 0,
     mmap_areas |-> FALSE]

DeadWorker == [pc |-> "dead", ts |-> 0, size |-> 0]

IdleThread == [pc |-> "idle", op |-> "none", pcm |-> "pcm", ret |-> "OK",
               size |-> 0, tm |-> 0, id |-> 0, walk |-> <<>>]

Exists(p) == p \in Range(slist)

\* audio_hook_get_stream_alsa: find the stream, or link a fresh one at the head
GetStreamList(p) == IF Exists(p) THEN slist ELSE <<p>> \o slist

GetStreamStreams(p) == IF Exists(p) THEN streams ELSE [streams EXCEPT ![p] = NewStream]

\* the lock audio_hook_lock_write / audio_hook_unlock_write select by mode
LockField(s) == IF s.mode_async THEN "write_spinlock" ELSE "write_mutex"

LockOwner(s) == IF s.mode_async THEN s.write_spinlock ELSE s.write_mutex

SetLock(s, v) ==
    IF s.mode_async THEN [s EXCEPT !.write_spinlock = v]
                    ELSE [s EXCEPT !.write_mutex = v]

\* pthread_mutex_unlock / pthread_spin_unlock by q.  Unlocking a lock q does
\* not hold is undefined: the lock is released or left as it is.
UnlockOutcomes(s, q) ==
    IF LockOwner(s) = q THEN {SetLock(s, Free)}
    ELSE {SetLock(s, Free), s}

Holds(q, p) == streams[p].write_mutex = q \/ streams[p].write_spinlock = q

LiveWorkers(p) == {w \in WorkerSlots : wk[p][w].pc # "dead"}

\* the byte-level data path is not part of the concurrent specifications
NoCopy == [pc |-> "off"]

(* ------------------------------ Init ---------------------------------- *)

InitHook ==
    /\ to = FALSE
    /\ capturing = FALSE
    /\ allow_skip = FALSE
    /\ started = FALSE
    /\ slist = <<>>
    /\ streams = [p \in Pcms |-> NewStream]
    /\ wk = [p \in Pcms |-> [w \in WorkerSlots |-> DeadWorker]]
    /\ th = [q \in Procs |-> IdleThread]
    /\ out = <<>>
    /\ clock = 0
    /\ audio_count = 0
    /\ ndata = 0
    /\ nhw = 0
    /\ submitted = [p \in Pcms |-> <<>>]
    /\ epoch = [p \in Pcms |-> 0]
    /\ destroyed = FALSE
    /\ crashed = FALSE

Init == InitHook /\ cp = NoCopy

(* ------------------------------ facade -------------------------------- *)

CtlIdle == th[Ctl].pc = "idle" /\ ~destroyed /\ ~crashed

\* audio_hook_set_buffer
SetBuffer ==
    /\ CtlIdle
    /\ ~to
    /\ to' = TRUE
    /\ UNCHANGED <<capturing, allow_skip, started, slist, streams, wk, th, out,
                   clock, audio_count, ndata, nhw, histv, destroyed, crashed>>

\* audio_hook_allow_skip(hook, 1), called while the library configures the
\* hook: before the transport is bound and before any stream is seen
AllowSkip ==
    /\ CtlIdle
    /\ ~to
    /\ slist = <<>>
    /\ ~allow_skip
    /\ allow_skip' = TRUE
    /\ UNCHANGED <<to, capturing, started, slist, streams, wk, th, out,
                   clock, audio_count, ndata, nhw, histv, destroyed, crashed>>

\* audio_hook_stop
Stop ==
    /\ CtlIdle
    /\ capturing
    /\ capturing' = FALSE
    /\ UNCHANGED <<to, allow_skip, started, slist, streams, wk, th, out,
                   clock, audio_count, ndata, nhw, histv, destroyed, crashed>>

\* audio_hook_start, up to the call of audio_hook_init_streams
StartBegin ==
    /\ CtlIdle
    /\ to
    /\ ~capturing
    /\ th' = [th EXCEPT ![Ctl] =
                IF ~started
                THEN [@ EXCEPT !.pc = "is_walk", !.op = "start", !.walk = slist]
                ELSE [@ EXCEPT !.pc = "st_flag", !.op = "start"]]
    /\ UNCHANGED <<hookv, slist, streams, wk, out, clock, audio_count,
                   ndata, nhw, histv, destroyed, crashed>>

\* audio_hook_init_streams: one turn of the walk over the stream list
InitStreamsWalk ==
    /\ th[Ctl].pc = "is_walk"
    /\ ~crashed
    /\ LET walk == th[Ctl].walk IN
       IF walk = <<>>
       THEN /\ started' = TRUE
            /\ th' = [th EXCEPT ![Ctl].pc = "st_flag"]
       ELSE /\ started' = started
            /\ th' = [th EXCEPT ![Ctl] =
                        IF streams[Head(walk)].fmt /\ ~streams[Head(walk)].initialized
                        THEN [@ EXCEPT !.pc = "si_begin", !.pcm = Head(walk)]
                        ELSE [@ EXCEPT !.walk = Tail(walk)]]
    /\ UNCHANGED <<to, capturing, allow_skip, slist, streams, wk, out, clock,
                   audio_count, ndata, nhw, histv, destroyed, crashed>>

\* audio_hook_start: flags |= AUDIO_HOOK_CAPTURING
StartFinish ==
    /\ th[Ctl].pc = "st_flag"
    /\ ~crashed
    /\ capturing' = TRUE
    /\ th' = [th EXCEPT ![Ctl] = IdleThread]
    /\ UNCHANGED <<to, allow_skip, started, slist, streams, wk, out, clock,
                   audio_count, ndata, nhw, histv, destroyed, crashed>>

\* audio_hook_destroy is called once the application makes no more calls
DestroyBegin ==
    /\ CtlIdle
    /\ \A t \in Threads : th[t].pc = "idle"
    /\ th' = [th EXCEPT ![Ctl] = [IdleThread EXCEPT !.pc = "d_loop", !.op = "destroy"]]
    /\ UNCHANGED <<hookv, slist, streams, wk, out, clock, audio_count,
                   ndata, nhw, histv, destroyed, crashed>>

\* audio_hook_destroy: unlink the head; tell its capture thread to quit
DestroyLoop ==
    /\ th[Ctl].pc = "d_loop"
    /\ ~crashed
    /\ IF slist = <<>>
       THEN /\ destroyed' = TRUE
            /\ th' = [th EXCEPT ![Ctl] = IdleThread]
            /\ UNCHANGED <<slist, streams>>
       ELSE LET del == Head(slist) IN
            /\ destroyed' = destroyed
            /\ slist' = Tail(slist)
            /\ IF streams[del].capture_running
               THEN /\ streams' = [streams EXCEPT
                                     ![del].capture_running = FALSE,
                                     ![del].capture_full = @ + 1]
                    /\ th' = [th EXCEPT ![Ctl].pc = "d_wait", ![Ctl].pcm = del]
               ELSE /\ streams' = streams
                    /\ th' = [th EXCEPT ![Ctl].pc = "d_free", ![Ctl].pcm = del]
    /\ UNCHANGED <<hookv, wk, out, clock, audio_count, ndata, nhw, histv, crashed>>

\* audio_hook_destroy: sem_wait(&del->capture_finished)
DestroyWait ==
    /\ th[Ctl].pc = "d_wait"
    /\ ~crashed
    /\ streams[th[Ctl].pcm].capture_finished > 0
    /\ streams' = [streams EXCEPT ![th[Ctl].pcm].capture_finished = @ - 1]
    /\ th' = [th EXCEPT ![Ctl].pc = "d_free"]
    /\ UNCHANGED <<hookv, slist, wk, out, clock, audio_count, ndata, nhw,
                   histv, destroyed, crashed>>

\* audio_hook_destroy: destroy the semaphores and locks, free the stream
DestroyFree ==
    /\ th[Ctl].pc = "d_free"
    /\ ~crashed
    /\ streams' = [streams EXCEPT ![th[Ctl].pcm] = NewStream]
    /\ th' = [th EXCEPT ![Ctl].pc = "d_loop"]
    /\ UNCHANGED <<hookv, slist, wk, out, clock, audio_count, ndata, nhw,
                   histv, destroyed, crashed>>

(* --------------------------- stream_init ------------------------------ *)

\* where audio_hook_stream_init returns to: hw_params' unlock, or the walk
SiReturn(r, rv) ==
    IF r.op = "start"
    THEN [r EXCEPT !.pc = "is_walk", !.walk = Tail(r.walk), !.ret = rv]
    ELSE [r EXCEPT !.pc = "unlock", !.ret = rv]

\* the AUDIO_FORMAT message of a stream
FormatMsg(p, s) ==
    [type |-> "AUDIO_FORMAT", pcm |-> p, audio |-> s.audio_i, flags |-> s.flags,
     channels |-> s.channels]

\* audio_hook_stream_init asking for a new stream id at every initialization
StreamInitBeginNewId(q) ==
    /\ th[q].pc = "si_begin"
    /\ ~crashed
    /\ LET p == th[q].pcm IN
       IF ~streams[p].fmt
       THEN /\ th' = [th EXCEPT ![q] = SiReturn(@, "EINVAL")]
            /\ UNCHANGED <<streams, audio_count, epoch>>
       ELSE /\ audio_count' = audio_count + 1
            /\ streams' = [streams EXCEPT
                             ![p].audio_i = audio_count + 1,
                             ![p].packet = "init"]
            /\ epoch' = [epoch EXCEPT ![p] = @ + 1]
            /\ th' = [th EXCEPT ![q].pc = "si_fmt"]
    /\ UNCHANGED <<hookv, slist, wk, out, clock, ndata, nhw, submitted,
                   destroyed, crashed, cp>>

\* audio_hook_stream_init: the format check, the stream id, ps_packet_destroy
\* (if initialized) and ps_packet_init
StreamInitBegin(q) ==
    /\ th[q].pc = "si_begin"
    /\ ~crashed
    /\ LET p == th[q].pcm IN
       IF ~streams[p].fmt
       THEN /\ th' = [th EXCEPT ![q] = SiReturn(@, "EINVAL")]
            /\ UNCHANGED <<streams, audio_count, epoch>>
       ELSE /\ audio_count' = IF streams[p].audio_i < 1 THEN audio_count + 1
                              ELSE audio_count
            /\ streams' = [streams EXCEPT
                             ![p].audio_i = IF @ < 1 THEN audio_count + 1 ELSE @,
                             ![p].packet = "init"]
            /\ epoch' = [epoch EXCEPT ![p] = @ + 1]
            /\ th' = [th EXCEPT ![q].pc = "si_fmt"]
    /\ UNCHANGED <<hookv, slist, wk, out, clock, ndata, nhw, submitted,
                   destroyed, crashed, cp>>

\* audio_hook_stream_init: write the AUDIO_FORMAT message
StreamInitFormat(q) ==
    /\ th[q].pc = "si_fmt"
    /\ ~crashed
    /\ out' = Append(out, FormatMsg(th[q].pcm, streams[th[q].pcm]))
    /\ th' = [th EXCEPT ![q].pc = "si_kill"]
    /\ UNCHANGED <<hookv, slist, streams, wk, clock, audio_count, ndata, nhw,
                   histv, destroyed, crashed>>

\* audio_hook_stream_init: kill the old thread
StreamInitKill(q) ==
    /\ th[q].pc = "si_kill"
    /\ ~crashed
    /\ LET p == th[q].pcm IN
       IF streams[p].capture_running
       THEN /\ streams' = [streams EXCEPT ![p].capture_running = FALSE,
                                          ![p].capture_full = @ + 1]
            /\ th' = [th EXCEPT ![q].pc = "si_wait"]
       ELSE /\ streams' = streams
            /\ th' = [th EXCEPT ![q].pc = "si_spawn"]
    /\ UNCHANGED <<hookv, slist, wk, out, clock, audio_count, ndata, nhw,
                   histv, destroyed, crashed>>

\* audio_hook_stream_init: sem_wait(&stream->capture_finished)
StreamInitWait(q) ==
    /\ th[q].pc = "si_wait"
    /\ ~crashed
    /\ streams[th[q].pcm].capture_finished > 0
    /\ streams' = [streams EXCEPT ![th[q].pcm].capture_finished = @ - 1]
    /\ th' = [th EXCEPT ![q].pc = "si_spawn"]
    /\ UNCHANGED <<hookv, slist, wk, out, clock, audio_count, ndata, nhw,
                   histv, destroyed, crashed>>

\* audio_hook_stream_init: capture_running = 1, pthread_create, initialized = 1
StreamInitSpawn(q) ==
    /\ th[q].pc = "si_spawn"
    /\ ~crashed
    /\ LET p == th[q].pcm
           dead == WorkerSlots \ LiveWorkers(p) IN
       /\ dead # {}
       /\ LET w == CHOOSE x \in dead : \A y \in dead : x <= y IN
          wk' = [wk EXCEPT ![p][w] = [pc |-> "start", ts |-> 0, size |-> 0]]
       /\ streams' = [streams EXCEPT ![p].capture_running = TRUE,
                                     ![p].initialized = TRUE]
    /\ th' = [th EXCEPT ![q] = SiReturn(@, "OK")]
    /\ UNCHANGED <<hookv, slist, out, clock, audio_count, ndata, nhw,
                   histv, destroyed, crashed>>

(* --------------------------- capture thread --------------------------- *)

\* the AUDIO packet a capture thread writes
AudioMsg(p, s, hdr) ==
    [type |-> "AUDIO", pcm |-> p, audio |-> s.audio_i, timestamp |-> hdr.ts,
     size |-> hdr.size, data |-> s.capture_data]

\* audio_hook_thread: stream->capture_ready = 1 before the loop
WorkerStart(p, w) ==
    /\ wk[p][w].pc = "start"
    /\ ~crashed
    /\ streams' = [streams EXCEPT ![p].capture_ready = TRUE]
    /\ wk' = [wk EXCEPT ![p][w].pc = "wait"]
    /\ UNCHANGED <<hookv, slist, th, out, clock, audio_count, ndata, nhw,
                   histv, destroyed, crashed>>

\* audio_hook_thread: sem_wait(&stream->capture_full); capture_ready = 0
WorkerWait(p, w) ==
    /\ wk[p][w].pc = "wait"
    /\ ~crashed
    /\ streams[p].capture_full > 0
    /\ streams' = [streams EXCEPT ![p].capture_full = @ - 1,
                                  ![p].capture_ready = FALSE]
    /\ wk' = [wk EXCEPT ![p][w].pc = "chk"]
    /\ UNCHANGED <<hookv, slist, th, out, clock, audio_count, ndata, nhw,
                   histv, destroyed, crashed>>

\* audio_hook_thread: the capture_running test, the header fields,
\* ps_packet_open
WorkerCheck(p, w) ==
    /\ wk[p][w].pc = "chk"
    /\ ~crashed
    /\ IF ~streams[p].capture_running
       THEN /\ wk' = [wk EXCEPT ![p][w].pc = "fin"]
            /\ streams' = streams
       ELSE /\ wk' = [wk EXCEPT ![p][w] =
                        [pc |-> "write", ts |-> streams[p].capture_time,
                         size |-> streams[p].capture_size]]
            /\ streams' = [streams EXCEPT ![p].packet = "open"]
    /\ UNCHANGED <<hookv, slist, th, out, clock, audio_count, ndata,
                   nhw, histv, destroyed, crashed>>

\* audio_hook_thread: the three ps_packet_write and ps_packet_close
WorkerWrite(p, w) ==
    /\ wk[p][w].pc = "write"
    /\ ~crashed
    /\ IF streams[p].capture_null /\ wk[p][w].size > 0
       THEN /\ crashed' = TRUE
            /\ UNCHANGED <<out, streams, wk>>
       ELSE /\ crashed' = crashed
            /\ out' = Append(out, AudioMsg(p, streams[p], wk[p][w]))
            /\ streams' = [streams EXCEPT ![p].packet = "init"]
            /\ wk' = [wk EXCEPT ![p][w] = [pc |-> "post", ts |-> 0, size |-> 0]]
    /\ UNCHANGED <<hookv, slist, th, clock, audio_count, ndata, nhw,
                   histv, destroyed>>

\* audio_hook_thread: sem_post(&stream->capture_empty) unless ASYNC, then
\* stream->capture_ready = 1
WorkerPost(p, w) ==
    /\ wk[p][w].pc = "post"
    /\ ~crashed
    /\ streams' = [streams EXCEPT
                     ![p].capture_empty = IF streams[p].mode_async THEN @ ELSE @ + 1,
                     ![p].capture_ready = TRUE]
    /\ wk' = [wk EXCEPT ![p][w].pc = "wait"]
    /\ UNCHANGED <<hookv, slist, th, out, clock, audio_count, ndata, nhw,
                   histv, destroyed, crashed>>

\* audio_hook_thread: sem_post(&stream->capture_finished) and return
WorkerFinish(p, w) ==
    /\ wk[p][w].pc = "fin"
    /\ ~crashed
    /\ streams' = [streams EXCEPT ![p].capture_finished = @ + 1]
    /\ wk' = [wk EXCEPT ![p][w] = DeadWorker]
    /\ UNCHANGED <<hookv, slist, th, out, clock, audio_count, ndata, nhw,
                   histv, destroyed, crashed>>

(* ------------------------- producer entry points ---------------------- *)

\* an application thread may enter the hook until destroy begins
AppCanCall(t) ==
    /\ th[t].pc = "idle"
    /\ th[Ctl].op # "destroy"
    /\ ~destroyed
    /\ ~crashed

\* the application opens or closes a handle no other thread is using
HandleUnused(t, p) == \A u \in Threads \ {t} : th[u].pc = "idle" \/ th[u].pcm # p

\* audio_hook_alsa_open, with the handle snd_pcm_open has just created
AlsaOpen(t, p) ==
    /\ AppCanCall(t)
    /\ ~Exists(p)
    /\ \E m \in BOOLEAN :
         streams' = [GetStreamStreams(p) EXCEPT ![p].mode_async = m]
    /\ slist' = GetStreamList(p)
    /\ UNCHANGED <<hookv, wk, th, out, clock, audio_count, ndata, nhw,
                   histv, destroyed, crashed>>

\* audio_hook_alsa_close tearing the stream down: fmt and initialized cleared
AlsaCloseUninitialize(t, p) ==
    /\ AppCanCall(t)
    /\ HandleUnused(t, p)
    /\ ~(Exists(p) /\ ~streams[p].fmt)
    /\ streams' = [GetStreamStreams(p) EXCEPT ![p].fmt = FALSE,
                                              ![p].initialized = FALSE]
    /\ slist' = GetStreamList(p)
    /\ UNCHANGED <<hookv, wk, th, out, clock, audio_count, ndata, nhw,
                   histv, destroyed, crashed>>

\* audio_hook_alsa_close
AlsaClose(t, p) ==
    /\ AppCanCall(t)
    /\ HandleUnused(t, p)
    /\ ~(Exists(p) /\ ~streams[p].fmt)
    /\ streams' = [GetStreamStreams(p) EXCEPT ![p].fmt = FALSE]
    /\ slist' = GetStreamList(p)
    /\ UNCHANGED <<hookv, wk, th, out, clock, audio_count, ndata, nhw,
                   histv, destroyed, crashed>>

\* pcm_fmt_to_glc_fmt
pcm_fmt_to_glc_fmt(f) ==
    IF f \in {"S16_LE", "S24_LE", "S32_LE"} THEN f ELSE "FORMAT_UNKNOWN"

\* audio_hook_alsa_hw_params: get the stream
HwParamsEnter(t, p) ==
    /\ AppCanCall(t)
    /\ nhw' = nhw + 1
    /\ slist' = GetStreamList(p)
    /\ streams' = GetStreamStreams(p)
    /\ th' = [th EXCEPT ![t] = [IdleThread EXCEPT !.pc = "lock", !.op = "hw_params",
                                                  !.pcm = p]]
    /\ UNCHANGED <<hookv, wk, out, clock, audio_count, ndata, histv,
                   destroyed, crashed>>

\* position after audio_hook_lock_write, by entry point
AfterLock(op) ==
    CASE op = "hw_params" -> "hw_extract"
      [] op = "writei" -> "wait"
      [] op = "writen" -> "n_chk"
      [] op = "mmap_begin" -> "mb_rec"
      [] op = "mmap_commit" -> "mc_chk"

\* audio_hook_lock_write taking write_mutex whatever the mode
LockWriteMutexOnly(t) ==
    /\ th[t].pc = "lock"
    /\ ~crashed
    /\ streams[th[t].pcm].write_mutex = Free
    /\ streams' = [streams EXCEPT ![th[t].pcm].write_mutex = t]
    /\ th' = [th EXCEPT ![t].pc = AfterLock(th[t].op)]
    /\ UNCHANGED <<hookv, slist, wk, out, clock, audio_count, ndata, nhw,
                   histv, destroyed, crashed>>

\* audio_hook_lock_write
LockWrite(t) ==
    /\ th[t].pc = "lock"
    /\ ~crashed
    /\ LockOwner(streams[th[t].pcm]) = Free
    /\ streams' = [streams EXCEPT ![th[t].pcm] = SetLock(@, t)]
    /\ th' = [th EXCEPT ![t].pc = AfterLock(th[t].op)]
    /\ UNCHANGED <<hookv, slist, wk, out, clock, audio_count, ndata, nhw,
                   histv, destroyed, crashed>>

\* audio_hook_unlock_write, then return ret
UnlockWrite(t) ==
    /\ th[t].pc = "unlock"
    /\ ~crashed
    /\ \E s \in UnlockOutcomes(streams[th[t].pcm], t) :
         streams' = [streams EXCEPT ![th[t].pcm] = s]
    /\ th' = [th EXCEPT ![t].pc = "ret"]
    /\ UNCHANGED <<hookv, slist, wk, out, clock, audio_count, ndata, nhw,
                   histv, destroyed, crashed>>

\* the call returns th[t].ret to the application
Return(t) ==
    /\ th[t].pc = "ret"
    /\ ~crashed
    /\ th' = [th EXCEPT ![t] = IdleThread]
    /\ UNCHANGED <<hookv, slist, streams, wk, out, clock, audio_count, ndata,
                   nhw, histv, destroyed, crashed>>

\* the stream after hw_params extracted the configuration (format f, channels
\* ch, access a), the getter named by fail failing
HwExtracted(s, f, ch, a, fail) ==
    IF fail = "format" THEN s
    ELSE IF pcm_fmt_to_glc_fmt(f) = "FORMAT_UNKNOWN"
    THEN [s EXCEPT !.flags = {pcm_fmt_to_glc_fmt(f)}]
    ELSE IF fail = "access"
    THEN [s EXCEPT !.flags = {pcm_fmt_to_glc_fmt(f)}, !.channels = ch]
    ELSE IF a \in {"RW_INTERLEAVED", "MMAP_INTERLEAVED"}
    THEN [s EXCEPT !.flags = {pcm_fmt_to_glc_fmt(f), "INTERLEAVED"},
                   !.channels = ch, !.fmt = TRUE]
    ELSE IF a = "MMAP_COMPLEX"
    THEN [s EXCEPT !.flags = {pcm_fmt_to_glc_fmt(f), "INTERLEAVED"},
                   !.channels = ch, !.complex = TRUE, !.fmt = TRUE]
    ELSE [s EXCEPT !.flags = {pcm_fmt_to_glc_fmt(f)}, !.channels = ch]

\* what hw_params returns before stream_init
HwResult(f, a, fail) ==
    IF fail # "none" THEN "HOSTERR"
    ELSE IF pcm_fmt_to_glc_fmt(f) = "FORMAT_UNKNOWN" THEN "ENOTSUP"
    ELSE IF a \in {"RW_INTERLEAVED", "MMAP_INTERLEAVED", "MMAP_COMPLEX"} THEN "OK"
    ELSE "ENOTSUP"

\* audio_hook_alsa_hw_params: extract the configuration; stream->fmt = 1; the
\* test of audio_hook->started
HwParamsExtract(t, f, ch, a, fail) ==
    /\ th[t].pc = "hw_extract"
    /\ ~crashed
    /\   /\ streams' = [streams EXCEPT ![th[t].pcm] = HwExtracted(@, f, ch, a, fail)]
         /\ th' = [th EXCEPT ![t] =
                     IF HwResult(f, a, fail) = "OK" /\ started
                     THEN [@ EXCEPT !.pc = "si_begin"]
                     ELSE [@ EXCEPT !.pc = "unlock", !.ret = HwResult(f, a, fail)]]
    /\ UNCHANGED <<hookv, slist, wk, out, clock, audio_count, ndata, nhw,
                   histv, destroyed, crashed>>

\* the entry of a data call without the capturing test
DataEnterNoCapturingTest(t, p, o, n) ==
    /\ AppCanCall(t)
    /\ ndata' = ndata + 1
    /\   LET call == [IdleThread EXCEPT !.op = o, !.pcm = p, !.size = n,
                                        !.id = ndata + 1] IN
              /\ slist' = GetStreamList(p)
              /\ streams' = GetStreamStreams(p)
              /\ th' = [th EXCEPT ![t] =
                          IF o # "mmap_commit" /\ ~GetStreamStreams(p)[p].initialized
                          THEN [call EXCEPT !.pc = "unlock", !.ret = "EINVAL"]
                          ELSE [call EXCEPT !.pc = "lock"]]
    /\ UNCHANGED <<hookv, wk, out, clock, audio_count, nhw, histv,
                   destroyed, crashed>>

\* the entry of writei, writen, mmap_begin, mmap_commit: the capturing test,
\* get_stream, and (all but mmap_commit) the initialized test
DataEnter(t, p, o, n) ==
    /\ AppCanCall(t)
    /\ ndata' = ndata + 1
    /\   LET call == [IdleThread EXCEPT !.op = o, !.pcm = p, !.size = n,
                                        !.id = ndata + 1] IN
         IF ~capturing
         THEN /\ th' = [th EXCEPT ![t] = [call EXCEPT !.pc = "ret"]]
              /\ UNCHANGED <<slist, streams>>
         ELSE /\ slist' = GetStreamList(p)
              /\ streams' = GetStreamStreams(p)
              /\ th' = [th EXCEPT ![t] =
                          IF o # "mmap_commit" /\ ~GetStreamStreams(p)[p].initialized
                          THEN [call EXCEPT !.pc = "unlock", !.ret = "EINVAL"]
                          ELSE [call EXCEPT !.pc = "lock"]]
    /\ UNCHANGED <<hookv, wk, out, clock, audio_count, nhw, histv,
                   destroyed, crashed>>

\* audio_hook_alsa_n without the INTERLEAVED test
WritenCheckNoTest(t) ==
    /\ th[t].pc = "n_chk"
    /\ ~crashed
    /\ th' = [th EXCEPT ![t].pc = "wait"]
    /\ UNCHANGED <<hookv, slist, streams, wk, out, clock, audio_count, ndata,
                   nhw, histv, destroyed, crashed>>

\* audio_hook_alsa_n: the INTERLEAVED test
WritenCheck(t) ==
    /\ th[t].pc = "n_chk"
    /\ ~crashed
    /\ th' = [th EXCEPT ![t] =
                IF "INTERLEAVED" \in streams[th[t].pcm].flags
                THEN [@ EXCEPT !.pc = "unlock", !.ret = "EINVAL"]
                ELSE [@ EXCEPT !.pc = "wait"]]
    /\ UNCHANGED <<hookv, slist, streams, wk, out, clock, audio_count, ndata,
                   nhw, histv, destroyed, crashed>>

\* audio_hook_alsa_mmap_begin: record areas, frames and offset
MmapBeginRecord(t) ==
    /\ th[t].pc = "mb_rec"
    /\ ~crashed
    /\ streams' = [streams EXCEPT ![th[t].pcm].mmap_areas = TRUE]
    /\ th' = [th EXCEPT ![t].pc = "unlock"]
    /\ UNCHANGED <<hookv, slist, wk, out, clock, audio_count, ndata, nhw,
                   histv, destroyed, crashed>>

\* audio_hook_alsa_mmap_commit: the channels test and the mmap_areas test
MmapCommitCheck(t) ==
    /\ th[t].pc = "mc_chk"
    /\ ~crashed
    /\ th' = [th EXCEPT ![t] =
                IF streams[th[t].pcm].channels = 0
                THEN [@ EXCEPT !.pc = "unlock"]
                ELSE IF ~streams[th[t].pcm].mmap_areas
                THEN [@ EXCEPT !.pc = "ret", !.ret = "EINVAL"]
                ELSE [@ EXCEPT !.pc = "wait"]]
    /\ UNCHANGED <<hookv, slist, streams, wk, out, clock, audio_count, ndata,
                   nhw, histv, destroyed, crashed>>

\* audio_hook_wait_for_thread leaving its loop with break where the code has
\* goto busy: a producer that finds the stream not ready goes on
WaitForThreadNoBusy(t) ==
    /\ th[t].pc = "wait"
    /\ ~crashed
    /\ LET p == th[t].pcm IN
       IF streams[p].mode_async
       THEN /\ streams[p].capture_ready \/ allow_skip
            /\ th' = [th EXCEPT ![t].pc = "size"]
            /\ streams' = streams
       ELSE /\ streams[p].capture_empty > 0
            /\ streams' = [streams EXCEPT ![p].capture_empty = @ - 1]
            /\ th' = [th EXCEPT ![t].pc = "size"]
    /\ UNCHANGED <<hookv, slist, wk, out, clock, audio_count, ndata, nhw,
                   histv, destroyed, crashed>>

\* audio_hook_wait_for_thread polling capture_ready in blocking mode too,
\* never taking the empty semaphore
WaitForThreadPollOnly(t) ==
    /\ th[t].pc = "wait"
    /\ ~crashed
    /\ LET p == th[t].pcm IN
       /\ streams[p].capture_ready \/ allow_skip
       /\ th' = [th EXCEPT ![t] =
                   IF streams[p].capture_ready
                   THEN [@ EXCEPT !.pc = "size"]
                   ELSE [@ EXCEPT !.pc = "unlock", !.ret = "EBUSY"]]
       /\ streams' = streams
    /\ UNCHANGED <<hookv, slist, wk, out, clock, audio_count, ndata, nhw,
                   histv, destroyed, crashed>>

\* audio_hook_wait_for_thread
WaitForThread(t) ==
    /\ th[t].pc = "wait"
    /\ ~crashed
    /\ LET p == th[t].pcm IN
       IF streams[p].mode_async
       THEN /\ streams[p].capture_ready \/ allow_skip
            /\ th' = [th EXCEPT ![t] =
                        IF streams[p].capture_ready
                        THEN [@ EXCEPT !.pc = "size"]
                        ELSE [@ EXCEPT !.pc = "unlock", !.ret = "EBUSY"]]
            /\ streams' = streams
       ELSE /\ streams[p].capture_empty > 0
            /\ streams' = [streams EXCEPT ![p].capture_empty = @ - 1]
            /\ th' = [th EXCEPT ![t].pc = "size"]
    /\ UNCHANGED <<hookv, slist, wk, out, clock, audio_count, ndata, nhw,
                   histv, destroyed, crashed>>

\* audio_hook_set_data_size (ok: malloc or realloc does not return NULL), then
\* the call of glc_state_time: the clock never runs backwards
SetDataSize(t, ok) ==
    /\ th[t].pc = "size"
    /\ ~crashed
    /\ LET p == th[t].pcm
           size == th[t].size IN
       IF size <= streams[p].capture_data_size
       THEN /\ ok
            /\ streams' = [streams EXCEPT ![p].capture_size = size]
            /\ \E c \in clock..MaxClock :
                 /\ clock' = c
                 /\ th' = [th EXCEPT ![t].pc = "copy", ![t].tm = c]
       ELSE   /\ streams' = [streams EXCEPT ![p].capture_size = size,
                                            ![p].capture_data_size = size,
                                            ![p].capture_null = ~ok]
              /\ IF ok
                 THEN \E c \in clock..MaxClock :
                        /\ clock' = c
                        /\ th' = [th EXCEPT ![t].pc = "copy", ![t].tm = c]
                 ELSE /\ clock' = clock
                      /\ th' = [th EXCEPT ![t].pc = "unlock", ![t].ret = "ENOMEM"]
    /\ UNCHANGED <<hookv, slist, wk, out, audio_count, ndata, nhw,
                   histv, destroyed, crashed>>

\* stream->capture_time = ...; the copy of capture_size bytes into the
\* scratch; sem_post(&stream->capture_full): the call will return success
CopyData(t) ==
    /\ th[t].pc = "copy"
    /\ ~crashed
    /\ LET p == th[t].pcm IN
       IF streams[p].capture_null /\ streams[p].capture_size > 0
       THEN /\ crashed' = TRUE
            /\ UNCHANGED <<streams, th, submitted>>
       ELSE /\ crashed' = crashed
            /\ streams' = [streams EXCEPT ![p].capture_time = th[t].tm,
                                          ![p].capture_data = th[t].id,
                                          ![p].capture_full = @ + 1]
            /\ submitted' = [submitted EXCEPT ![p] =
                               Append(@, [id |-> th[t].id, size |-> th[t].size,
                                          epoch |-> epoch[p]])]
            /\ th' = [th EXCEPT ![t].pc = "unlock"]
    /\ UNCHANGED <<hookv, slist, wk, out, clock, audio_count, ndata, nhw,
                   epoch, destroyed, cp>>

(* ------------------------------ Next ---------------------------------- *)

Facade ==
    \/ SetBuffer \/ AllowSkip \/ Stop
    \/ StartBegin \/ InitStreamsWalk \/ StartFinish
    \/ DestroyBegin \/ DestroyLoop \/ DestroyWait \/ DestroyFree

StreamInit(q) ==
    \/ StreamInitBegin(q) \/ StreamInitFormat(q)
    \/ StreamInitKill(q) \/ StreamInitWait(q) \/ StreamInitSpawn(q)

Worker(p, w) ==
    \/ WorkerStart(p, w) \/ WorkerWait(p, w)
    \/ WorkerCheck(p, w) \/ WorkerWrite(p, w)
    \/ WorkerPost(p, w) \/ WorkerFinish(p, w)

\* the steps inside a producer entry point that take no input
ProducerStep(t) ==
    \/ LockWrite(t) \/ UnlockWrite(t) \/ Return(t)
    \/ WaitForThread(t) \/ CopyData(t)

Producer(t) ==
    \/ \E p \in Pcms : AlsaOpen(t, p) \/ AlsaClose(t, p)
    \/ \E p \in Pcms : nhw < MaxHw /\ HwParamsEnter(t, p)
    \/ \E p \in Pcms, o \in DataOps, n \in 1..MaxFrames :
         ndata < MaxData /\ DataEnter(t, p, o, n)
    \/ \E f \in Formats, ch \in ChannelCounts, a \in Accesses, fail \in FailPoints :
         HwParamsExtract(t, f, ch, a, fail)
    \/ WritenCheck(t) \/ MmapBeginRecord(t) \/ MmapCommitCheck(t)
    \/ \E ok \in BOOLEAN : SetDataSize(t, ok)
    \/ ProducerStep(t)

\* one application thread, every entry point and every facade call
Next ==
    \/ Facade
    \/ \E q \in Procs : StreamInit(q)
    \/ \E p \in Pcms, w \in WorkerSlots : Worker(p, w)
    \/ Producer("t1")

Spec == Init /\ [][Next]_vars

\* two application threads on one interleaved stream: open, hw_params, writei,
\* and the facade's start and destroy
ProducerMT(t) ==
    \/ \E p \in Pcms : AlsaOpen(t, p)
    \/ \E p \in Pcms : nhw < MaxHwMT /\ HwParamsEnter(t, p)
    \/ \E p \in Pcms : ndata < MaxDataMT /\ DataEnter(t, p, "writei", 1)
    \/ HwParamsExtract(t, "S16_LE", 2, "RW_INTERLEAVED", "none")
    \/ SetDataSize(t, TRUE)
    \/ ProducerStep(t)

NextMT ==
    \/ SetBuffer \/ StartBegin \/ InitStreamsWalk \/ StartFinish
    \/ DestroyBegin \/ DestroyLoop \/ DestroyWait \/ DestroyFree
    \/ \E q \in Procs : StreamInit(q)
    \/ \E p \in Pcms, w \in WorkerSlots : Worker(p, w)
    \/ \E t \in Threads : ProducerMT(t)

SpecMT == Init /\ [][NextMT]_vars

(* ------------------- the mmap data path, byte by byte ------------------ *)

\* The application's mapped memory is labelled by address: the byte at address
\* a has the value a, so a payload is the sequence of the addresses it was
\* copied from.  A byte of the scratch never written has the value 0.

CopyAccesses == {"MMAP_INTERLEAVED", "MMAP_COMPLEX", "MMAP_NONINTERLEAVED"}
CopyChannels == 1..MaxCopyChannels
Layouts == {"interleaved", "separate"}

\* snd_pcm_samples_to_bytes(pcm, 1) for the format the application installed
SampleBytes(f) ==
    IF f = "S16_LE" THEN 2 ELSE IF f \in {"S24_LE", "S32_LE"} THEN 4 ELSE 1

samples_to_bytes(pcm, n) == n * pcm.ssize

frames_to_bytes(pcm, n) == n * pcm.channels * pcm.ssize

\* the channel areas snd_pcm_mmap_begin hands out for the installed
\* configuration: one buffer of whole frames, or one buffer per channel
AreasOf(layout, pcm) ==
    [i \in 1..pcm.channels |->
        IF layout = "interleaved"
        THEN [addr |-> 1, first |-> 8 * pcm.ssize * (i - 1),
              step |-> 8 * pcm.ssize * pcm.channels]
        ELSE [addr |-> 1 + (i - 1) * pcm.ssize * (MaxCopyFrames + MaxCopyOffset),
              first |-> 0, step |-> 8 * pcm.ssize]]

\* &areas[c]; behind the end of the array the read finds no area
AreaAt(areas, c) ==
    IF c + 1 \in DOMAIN areas THEN areas[c + 1]
    ELSE [addr |-> 0, first |-> 0, step |-> 0]

audio_hook_alsa_mmap_pos(area, offset) ==
    area.addr + (area.first \div 8) + offset * (area.step \div 8)

\* memcpy(&to[off], from, n) into a scratch dst of Len(dst) bytes
Memcpy(dst, off, from, n) ==
    [i \in DOMAIN dst |->
        IF off <= i - 1 /\ i - 1 < off + n THEN from + (i - 1 - off) ELSE dst[i]]

\* the two loops of audio_hook_complex_to_interleaved, i counting the bodies
\* executed: channel i \div frames, frame i % frames, off = add * c + add * s
RECURSIVE ComplexLoop(_, _, _, _, _, _, _)
ComplexLoop(dst, pcm, areas, offset, frames, channels, i) ==
    IF i >= channels * frames THEN dst
    ELSE LET c == i \div frames
             s == i % frames
             add == frames_to_bytes(pcm, 1)
             ssize == samples_to_bytes(pcm, 1)
             off == add * c + add * s
         IN ComplexLoop(Memcpy(dst, off,
                               audio_hook_alsa_mmap_pos(AreaAt(areas, c), offset + s),
                               ssize),
                        pcm, areas, offset, frames, channels, i + 1)

audio_hook_complex_to_interleaved(channels, pcm, areas, offset, frames, dst) ==
    ComplexLoop(dst, pcm, areas, offset, frames, channels, 0)

\* the largest scratch index + 1 the converter writes
ComplexExtent(channels, pcm, frames) ==
    IF channels = 0 \/ frames = 0 THEN 0
    ELSE frames_to_bytes(pcm, 1) * ((channels - 1) + (frames - 1))
         + samples_to_bytes(pcm, 1)

\* the non-interleaved loop of audio_hook_alsa_mmap_commit
RECURSIVE PlanarLoop(_, _, _, _, _, _, _)
PlanarLoop(dst, pcm, areas, offset, frames, channels, c) ==
    IF c >= channels THEN dst
    ELSE PlanarLoop(Memcpy(dst, c * samples_to_bytes(pcm, frames),
                           audio_hook_alsa_mmap_pos(AreaAt(areas, c), offset),
                           samples_to_bytes(pcm, frames)),
                    pcm, areas, offset, frames, channels, c + 1)

\* audio_hook_set_data_size on the scratch buf of stream s
SizedStream(s, size) ==
    [s EXCEPT !.capture_size = size,
              !.capture_data_size = IF size <= @ THEN @ ELSE size,
              !.capture_null = IF size <= s.capture_data_size THEN @ ELSE FALSE]

SizedBuf(buf, size) ==
    IF size <= Len(buf) THEN buf
    ELSE [i \in 1..size |-> IF i <= Len(buf) THEN buf[i] ELSE 0]

\* the copy of audio_hook_alsa_mmap_commit, selected by flags and complex
CommitCopy(s, pcm, areas, offset, frames, buf) ==
    IF "INTERLEAVED" \in s.flags
    THEN Memcpy(buf, 0, audio_hook_alsa_mmap_pos(AreaAt(areas, 0), offset),
                frames_to_bytes(pcm, frames))
    ELSE IF s.complex
    THEN audio_hook_complex_to_interleaved(s.channels, pcm, areas, offset, frames, buf)
    ELSE PlanarLoop(buf, pcm, areas, offset, frames, s.channels, 0)

CopyStart ==
    [pc |-> "run", s |-> NewStream, pcm |-> [ssize |-> 1, channels |-> 0],
     access |-> "none", areas |-> <<>>, buf |-> <<>>, overflow |-> FALSE,
     committed |-> FALSE, offset |-> 0, frames |-> 0, ret |-> "OK", nhw |-> 0]

InitCopy == InitHook /\ cp = CopyStart

\* audio_hook_alsa_hw_params on a started, capturing hook: the application
\* installed format f, ch channels, access a; stream_init succeeds
CopyHwParams(f, ch, a, fail) ==
    /\ cp.pc = "run"
    /\ ~cp.committed
    /\ cp.nhw < MaxHwCopy
    /\ cp' = [cp EXCEPT
                !.s = IF HwResult(f, a, fail) = "OK"
                      THEN [HwExtracted(@, f, ch, a, fail) EXCEPT !.initialized = TRUE]
                      ELSE HwExtracted(@, f, ch, a, fail),
                !.pcm = [ssize |-> SampleBytes(f), channels |-> ch],
                !.access = IF HwResult(f, a, fail) = "OK" THEN a ELSE "failed",
                !.areas = <<>>,
                !.s.mmap_areas = FALSE,
                !.ret = HwResult(f, a, fail),
                !.nhw = @ + 1]
    /\ UNCHANGED <<hookv, slist, streams, wk, th, out, clock, audio_count, ndata,
                   nhw, submitted, epoch, destroyed, crashed>>

\* audio_hook_alsa_mmap_begin: record the areas the host handed out
CopyMmapBegin(layout, offset, frames) ==
    /\ cp.pc = "run"
    /\ ~cp.committed
    /\ cp.pcm.channels > 0
    /\ cp.areas = <<>>
    /\ cp' = IF ~cp.s.initialized
             THEN [cp EXCEPT !.ret = "EINVAL"]
             ELSE [cp EXCEPT !.areas = AreasOf(layout, cp.pcm),
                             !.s.mmap_areas = TRUE,
                             !.offset = offset, !.frames = frames,
                             !.ret = "OK"]
    /\ UNCHANGED <<hookv, slist, streams, wk, th, out, clock, audio_count, ndata,
                   nhw, submitted, epoch, destroyed, crashed>>

\* audio_hook_alsa_mmap_commit, the capture thread idle
CopyMmapCommit(offset, frames) ==
    /\ cp.pc = "run"
    /\ ~cp.committed
    /\ cp.nhw > 0
    /\ cp' = IF cp.s.channels = 0 THEN [cp EXCEPT !.ret = "OK"]
             ELSE IF ~cp.s.mmap_areas THEN [cp EXCEPT !.ret = "EINVAL"]
             ELSE LET size == frames_to_bytes(cp.pcm, frames)
                      buf == SizedBuf(cp.buf, size)
                  IN [cp EXCEPT
                        !.s = SizedStream(@, size),
                        !.buf = CommitCopy(cp.s, cp.pcm, cp.areas, offset, frames, buf),
                        !.overflow =
                            /\ "INTERLEAVED" \notin cp.s.flags
                            /\ cp.s.complex
                            /\ ComplexExtent(cp.s.channels, cp.pcm, frames) > Len(buf),
                        !.offset = offset, !.frames = frames,
                        !.committed = TRUE,
                        !.ret = "OK"]
    /\ UNCHANGED <<hookv, slist, streams, wk, th, out, clock, audio_count, ndata,
                   nhw, submitted, epoch, destroyed, crashed>>

NextCopy ==
    \/ \E f \in Formats, ch \in CopyChannels, a \in CopyAccesses,
          fail \in {"none", "access"} : CopyHwParams(f, ch, a, fail)
    \/ \E layout \in Layouts, offset \in 0..MaxCopyOffset, frames \in 1..MaxCopyFrames :
          CopyMmapBegin(layout, offset, frames)
    \/ \E offset \in 0..MaxCopyOffset, frames \in 1..MaxCopyFrames :
          CopyMmapCommit(offset, frames)

SpecCopy == InitCopy /\ [][NextCopy]_vars

\* the payload of the committed period: capture_size bytes of the scratch
Payload == SubSeq(cp.buf, 1, cp.s.capture_size)

\* the interleaved payload of frames frames at offset: sample s of channel c
\* at byte s * frame_bytes + c * sample_bytes
Interleaved(pcm, areas, offset, frames) ==
    [i \in 1..frames_to_bytes(pcm, frames) |->
        LET s == (i - 1) \div frames_to_bytes(pcm, 1)
            c == ((i - 1) % frames_to_bytes(pcm, 1)) \div pcm.ssize
            k == (i - 1) % pcm.ssize
        IN audio_hook_alsa_mmap_pos(AreaAt(areas, c), offset + s) + k]

(* ------------------------------ claims -------------------------------- *)

\* the AUDIO packets of stream p, in emission order
AudioOut(p) == SelectSeq(out, LAMBDA m : m.type = "AUDIO" /\ m.pcm = p)

\* how many AUDIO_FORMAT messages of stream p are among the first n packets
FormatsBefore(p, n) ==
    Cardinality({i \in 1..n : out[i].type = "AUDIO_FORMAT" /\ out[i].pcm = p})

\* the epoch in which payload d of stream p was submitted (0: never submitted)
EpochOf(p, d) ==
    IF \E i \in 1..Len(submitted[p]) : submitted[p][i].id = d
    THEN submitted[p][CHOOSE i \in 1..Len(submitted[p]) : submitted[p][i].id = d].epoch
    ELSE 0

\* a producer is between audio_hook_set_data_size and the end of its copy
Writing(t, p) == th[t].pcm = p /\ th[t].pc = "copy"

\* a capture thread has read capture_time and capture_size and has not yet
\* finished writing capture_data downstream
Reading(p, w) == wk[p][w].pc = "write"

EmittedAsSubmitted(p) ==
    /\ Len(AudioOut(p)) <= Len(submitted[p])
    /\ \A i \in 1..Len(AudioOut(p)) :
         /\ AudioOut(p)[i].data = submitted[p][i].id
         /\ AudioOut(p)[i].size = submitted[p][i].size

\* C1: in either mode every successful submission is emitted exactly once, with
\* the size and the payload of that call: the AUDIO packets of a stream are, in
\* order, the payloads its producers submitted (none lost, doubled or replaced)
C1_ExactlyOnePacket == \A p \in Pcms : EmittedAsSubmitted(p)

\* C2: in both modes no producer is writing the scratch of a stream while a
\* capture thread is between reading capture_time and capture_size and the end
\* of its downstream write of capture_data
C2_NoOverlap ==
    \A p \in Pcms, t \in Threads, w \in WorkerSlots : ~(Writing(t, p) /\ Reading(p, w))

\* C3: the timestamps of the AUDIO packets of one stream never decrease in
\* emission order, whatever the interleaving of producers, capture threads and
\* re-initializations
C3_TimestampsOrdered ==
    \A p \in Pcms : \A i, j \in 1..Len(AudioOut(p)) :
        i < j => AudioOut(p)[i].timestamp <= AudioOut(p)[j].timestamp

\* C4: an AUDIO packet whose payload was submitted in the n-th format epoch of
\* its stream is written after the n-th AUDIO_FORMAT message of that stream, and
\* none is written before the first
C4_FormatBeforeAudio ==
    \A i \in 1..Len(out) :
        out[i].type = "AUDIO" =>
            /\ FormatsBefore(out[i].pcm, i) >= 1
            /\ FormatsBefore(out[i].pcm, i) >= EpochOf(out[i].pcm, out[i].data)

\* C5: a thread that has returned from an entry point, with success or with an
\* error, holds the write lock of no stream
C5_LockReleased ==
    \A t \in Threads, p \in Pcms : th[t].pc \in {"idle", "ret"} => ~Holds(t, p)

\* C6 as stated: while capturing is clear every entry point, open, close and
\* hw_params included, creates no stream, changes no stream field, emits no
\* packet and starts or ends no capture thread
C6_AllEntryPointsNoop ==
    [][\A t \in Threads, p \in Pcms :
         (/\ ~capturing
          /\ \/ AlsaOpen(t, p) \/ AlsaClose(t, p) \/ HwParamsEnter(t, p)
             \/ \E o \in DataOps, n \in 1..MaxFrames : DataEnter(t, p, o, n))
         => UNCHANGED <<slist, streams, out, wk>>]_vars

\* C6, amended: while capturing is clear writei, writen, mmap_begin and
\* mmap_commit return success at once, creating no stream, changing no stream
\* field, emitting no packet and starting or ending no capture thread; open and
\* hw_params do not test capturing: they find or create the stream, and
\* hw_params goes on to take its write lock
C6_DataOpsNoop ==
    [][\A t \in Threads, p \in Pcms :
         /\ \A o \in DataOps, n \in 1..MaxFrames :
              (~capturing /\ DataEnter(t, p, o, n))
              => /\ th'[t].pc = "ret"
                 /\ th'[t].ret = "OK"
                 /\ UNCHANGED <<slist, streams, out, wk>>
         /\ (th[t].op \in DataOps /\ th[t].pc = "ret" /\ Return(t))
              => UNCHANGED <<slist, streams, out, wk>>
         /\ (~capturing /\ AlsaOpen(t, p)) => (~Exists(p) /\ Exists(p)')
         /\ (~capturing /\ HwParamsEnter(t, p))
              => (Exists(p)' /\ th'[t].pc = "lock")]_vars

\* a data call has returned success on a hook that never captured, the stream
\* known and configured, nothing emitted
C6_Witness ==
    /\ ~capturing /\ ~started
    /\ \E t \in Threads :
         /\ th[t].pc = "ret" /\ th[t].op \in DataOps /\ th[t].ret = "OK"
         /\ Exists(th[t].pcm) /\ streams[th[t].pcm].fmt
    /\ out = <<>>

\* C7: while capturing, writei, writen, mmap_begin and mmap_commit on a stream
\* whose initialized flag is false decide on the result EINVAL, emit nothing and
\* leave the scratch and the semaphores of the stream alone
C7_UninitializedInvalid ==
    [][\A t \in Threads :
         /\ \A p \in Pcms, o \in DataOps, n \in 1..MaxFrames :
              (/\ capturing /\ DataEnter(t, p, o, n) /\ o # "mmap_commit"
               /\ ~streams'[p].initialized)
              => /\ th'[t].ret = "EINVAL"
                 /\ out' = out
                 /\ Exists(p) => streams'[p] = streams[p]
         /\ (MmapCommitCheck(t) /\ ~streams[th[t].pcm].initialized)
              => /\ th'[t].ret = "EINVAL"
                 /\ UNCHANGED <<streams, out>>]_vars

\* C8: after hw_params succeeded with access MMAP_COMPLEX, the payload of a
\* committed period is the interleaving of the channel areas: sample s of
\* channel c at byte s * frame_bytes + c * sample_bytes
C8_ComplexInterleaved ==
    (cp.pc = "run" /\ cp.committed /\ cp.access = "MMAP_COMPLEX")
    => Payload = Interleaved(cp.pcm, cp.areas, cp.offset, cp.frames)

\* C9: once destroy has returned no capture thread of any stream is left
C9_NoWorkerAfterDestroy ==
    destroyed => \A p \in Pcms : LiveWorkers(p) = {}

\* the producer t is in audio_hook_wait_for_thread on an ASYNC stream whose
\* capture thread is not ready, allow-skip set
BusyCase(t) ==
    /\ th[t].pc = "wait"
    /\ streams[th[t].pcm].mode_async
    /\ allow_skip
    /\ ~streams[th[t].pcm].capture_ready

\* C10: a submission that finds an ASYNC stream not ready while allow-skip is
\* set decides on EBUSY without waiting, then releases the spinlock and returns;
\* none of these steps changes the stream (scratch, capture_size, capture_time,
\* capture_full) beyond the lock, none emits a packet, and no AUDIO packet ever
\* carries the payload of that call
C10_BusyDrop ==
    /\ [](\A t \in Threads :
            th[t].ret = "EBUSY"
            => \A i \in 1..Len(out) :
                 out[i].type = "AUDIO" => out[i].data # th[t].id)
    /\ [][\A t \in Threads :
            /\ (BusyCase(t) /\ WaitForThread(t))
                 => /\ th'[t].pc = "unlock"
                    /\ th'[t].ret = "EBUSY"
                    /\ UNCHANGED <<streams, out, submitted>>
            /\ (th[t].ret = "EBUSY" /\ UnlockWrite(t))
                 => /\ th'[t].pc = "ret"
                    /\ streams'[th[t].pcm].write_spinlock = Free
                    /\ streams' = [streams EXCEPT
                                     ![th[t].pcm].write_spinlock = Free]
                    /\ UNCHANGED <<out, submitted>>
            /\ (th[t].ret = "EBUSY" /\ Return(t))
                 => UNCHANGED <<streams, out, submitted>>]_vars

\* a submission has returned EBUSY while an earlier payload of the stream is
\* still with the capture thread
C10_Witness ==
    \E t \in Threads :
        /\ th[t].pc = "ret" /\ th[t].ret = "EBUSY"
        /\ th[t].op \in {"writei", "writen", "mmap_commit"}
        /\ streams[th[t].pcm].mode_async /\ allow_skip
        /\ streams[th[t].pcm].write_spinlock = Free
        /\ Len(submitted[th[t].pcm]) > Len(AudioOut(th[t].pcm))

\* the application thread t takes a step of a data call (writei, writen,
\* mmap_begin, mmap_commit) on stream p
DataStep(t, p) ==
    /\ th'[t] # th[t]
    /\ \/ th[t].op \in DataOps /\ th[t].pcm = p
       \/ th'[t].op \in DataOps /\ th'[t].pcm = p

\* C11: no step of a data call on a stream in ASYNC mode locks or unlocks
\* write_mutex or takes the empty semaphore; a step that takes a lock takes
\* write_spinlock
C11_AsyncNeverBlocks ==
    [][\A t \in Threads, p \in Pcms :
         (DataStep(t, p) /\ Exists(p) /\ streams[p].mode_async)
         => /\ streams'[p].write_mutex = streams[p].write_mutex
            /\ streams'[p].capture_empty = streams[p].capture_empty
            /\ (th[t].pc = "lock" => streams'[p].write_spinlock = t)]_vars

\* a data call on an ASYNC stream has copied its payload and posted full,
\* holding the spinlock, write_mutex free and empty never taken
C11_Witness ==
    \E t \in Threads :
        /\ th[t].op \in DataOps /\ th[t].pc = "unlock" /\ th[t].ret = "OK"
        /\ streams[th[t].pcm].mode_async
        /\ streams[th[t].pcm].write_spinlock = t
        /\ streams[th[t].pcm].write_mutex = Free
        /\ streams[th[t].pcm].capture_empty = 1
        /\ streams[th[t].pcm].capture_full > 0

\* C12 as stated: once hw_params has returned success the audio_id of the
\* stream is greater than 0, hw_params before start included, and an assigned
\* audio_id never changes
C12_IdAfterHwParams ==
    /\ [](\A t \in Threads :
            (th[t].op = "hw_params" /\ th[t].pc = "ret" /\ th[t].ret = "OK")
            => streams[th[t].pcm].audio_i > 0)
    /\ [][\A p \in Pcms :
            (Exists(p) /\ Exists(p)' /\ streams[p].audio_i > 0)
            => streams'[p].audio_i = streams[p].audio_i]_vars

\* C12, amended: hw_params on a hook not yet started leaves audio_id as it is
\* (0 for a new stream) and hw_params on a started hook goes on to initialize
\* the stream; an initialized stream has audio_id > 0, and an initialization
\* that finds audio_id > 0 keeps it
C12_IdWhenInitialized ==
    /\ [](\A p \in Pcms : streams[p].initialized => streams[p].audio_i > 0)
    /\ [][\A q \in Procs :
            /\ (StreamInitBegin(q) /\ streams[th[q].pcm].audio_i > 0)
                 => streams'[th[q].pcm].audio_i = streams[th[q].pcm].audio_i
            /\ (StreamInitBegin(q) /\ streams[th[q].pcm].fmt)
                 => streams'[th[q].pcm].audio_i > 0
            /\ \A f \in Formats, ch \in ChannelCounts, a \in Accesses,
                  fail \in FailPoints :
                 HwParamsExtract(q, f, ch, a, fail)
                 => IF started /\ HwResult(f, a, fail) = "OK"
                    THEN th'[q].pc = "si_begin"
                    ELSE /\ th'[q].pc = "unlock"
                         /\ streams'[th[q].pcm].audio_i = streams[th[q].pcm].audio_i
                         /\ streams'[th[q].pcm].initialized
                              = streams[th[q].pcm].initialized]_vars

\* a stream has been initialized a second time and still has the audio_id of
\* its first AUDIO_FORMAT message
C12_Witness ==
    \E p \in Pcms :
        /\ epoch[p] >= 2 /\ streams[p].initialized /\ streams[p].audio_i > 0
        /\ \E i, j \in 1..Len(out) :
             /\ i < j
             /\ out[i].type = "AUDIO_FORMAT" /\ out[i].pcm = p
             /\ out[j].type = "AUDIO_FORMAT" /\ out[j].pcm = p
             /\ out[i].audio = streams[p].audio_i
             /\ out[j].audio = streams[p].audio_i

\* C13: close clears fmt of the stream and changes nothing else of it, no
\* capture thread and no packet; the first start skips a stream without fmt;
\* a data call on an initialized stream goes on to its lock whatever fmt is;
\* and capture_running is cleared only by destroy and by stream_init
C13_CloseClearsFmtOnly ==
    [][\A t \in Threads, p \in Pcms :
         /\ (AlsaClose(t, p) /\ Exists(p))
              => /\ streams' = [streams EXCEPT ![p].fmt = FALSE]
                 /\ UNCHANGED <<slist, wk, out, th>>
         /\ (InitStreamsWalk /\ th[Ctl].walk # <<>> /\ Head(th[Ctl].walk) = p
                /\ ~streams[p].fmt)
              => (th'[Ctl].pc = "is_walk" /\ UNCHANGED <<streams, wk, out>>)
         /\ \A o \in DataOps, n \in 1..MaxFrames :
              (capturing /\ DataEnter(t, p, o, n) /\ Exists(p)
                 /\ streams[p].initialized)
              => th'[t].pc = "lock"
         /\ (streams[p].capture_running /\ ~streams'[p].capture_running)
              => (DestroyLoop \/ \E q \in Procs : StreamInitKill(q))]_vars

\* a payload was submitted to an initialized stream after its close, the
\* capture thread still running
C13_Witness ==
    \E t \in Threads :
        /\ th[t].op = "writei" /\ th[t].pc = "unlock" /\ th[t].ret = "OK"
        /\ ~streams[th[t].pcm].fmt
        /\ streams[th[t].pcm].initialized
        /\ streams[th[t].pcm].capture_running
        /\ LiveWorkers(th[t].pcm) # {}
        /\ Len(submitted[th[t].pcm]) > 0

\* writen of thread t has found the INTERLEAVED flag on its stream
WritenRefused(t) ==
    /\ th[t].op = "writen"
    /\ th[t].ret = "EINVAL"
    /\ streams[th[t].pcm].initialized
    /\ "INTERLEAVED" \in streams[th[t].pcm].flags

\* C14: writen on an initialized stream whose flags contain INTERLEAVED decides
\* on EINVAL right after taking the lock, before waiting for the capture
\* thread; it then releases the lock and returns, and none of its steps emits
\* a packet, takes empty, posts full or changes the scratch
C14_WritenInterleaved ==
    /\ [](\A t \in Threads :
            (WritenRefused(t) /\ th[t].pc = "ret") => ~Holds(t, th[t].pcm))
    /\ [][\A t \in Threads :
            /\ (WritenCheck(t) /\ "INTERLEAVED" \in streams[th[t].pcm].flags)
                 => /\ th'[t].pc = "unlock"
                    /\ th'[t].ret = "EINVAL"
                    /\ UNCHANGED <<streams, out, submitted>>
            /\ (WritenRefused(t) /\ th[t].pc = "unlock" /\ UnlockWrite(t))
                 => /\ th'[t].pc = "ret"
                    /\ streams' = [streams EXCEPT
                                     ![th[t].pcm] = SetLock(@, Free)]
                    /\ UNCHANGED <<out, submitted>>
            /\ (WritenRefused(t) /\ Return(t))
                 => UNCHANGED <<streams, out, submitted>>]_vars

\* writen has returned EINVAL on an initialized interleaved stream whose slot
\* is empty and whose lock is free
C14_Witness ==
    \E t \in Threads :
        /\ WritenRefused(t) /\ th[t].pc = "ret"
        /\ streams[th[t].pcm].capture_empty = 1
        /\ streams[th[t].pcm].capture_full = 0
        /\ LockOwner(streams[th[t].pcm]) = Free
        /\ ~streams[th[t].pcm].mode_async

\* the capture thread of stream p has been told to quit and has not yet exited
ShuttingDown(p) == ~streams[p].capture_running /\ LiveWorkers(p) # {}

C16_OneWorker ==
    \A p \in Pcms :
        /\ Cardinality(LiveWorkers(p)) <= 1
        /\ (Exists(p) /\ streams[p].initialized /\ streams[p].capture_running)
             => Cardinality(LiveWorkers(p)) = 1

\* no audio_hook_start and no audio_hook_alsa_hw_params call is in progress
NoStartNoHwParams ==
    /\ th[Ctl].op # "start"
    /\ \A t \in Threads : th[t].op # "hw_params"

\* C17: once the hook is started every stream with a valid format is
\* initialized and has a running capture thread, whenever no start and no
\* hw_params call is in progress
C17_StartedImpliesInitialized ==
    \A p \in Pcms :
        (NoStartNoHwParams /\ started /\ Exists(p) /\ streams[p].fmt)
        => (streams[p].initialized /\ streams[p].capture_running)

\* C18: audio_hook_unlock_write is executed only by the thread that holds the
\* write lock of the stream, and a write lock a thread holds is released by a
\* step of that thread only
C18_UnlockByHolder ==
    [][/\ \A t \in Threads :
            UnlockWrite(t) => LockOwner(streams[th[t].pcm]) = t
       /\ \A p \in Pcms, u \in Threads :
            (Exists(p) /\ LockOwner(streams[p]) = u
               /\ LockOwner(streams'[p]) # u)
            => th'[u] # th[u]]_vars

\* a capture thread of stream p has a write-transaction open on the packet, or
\* will open one: it has taken a payload, or a payload waits in the slot
PacketInUse(p) ==
    \E w \in WorkerSlots :
        \/ wk[p][w].pc = "write"
        \/ wk[p][w].pc = "chk" /\ streams[p].capture_running
        \/ wk[p][w].pc \in {"start", "wait", "post"} /\ streams[p].capture_full > 0

\* C19: when audio_hook_stream_init destroys, initializes or writes the packet
\* of a stream, no capture thread of that stream has a write-transaction open
\* on the packet or can still open one
C19_PacketTouchedAfterExit ==
    [][\A q \in Procs :
         (\/ StreamInitBegin(q) /\ streams[th[q].pcm].fmt
          \/ StreamInitFormat(q))
         => ~PacketInUse(th[q].pcm)]_vars

\* C20: every AUDIO packet carries a payload submitted under the format of the
\* latest AUDIO_FORMAT message of its stream written before it
C20_NoStalePayload ==
    \A i \in 1..Len(out) :
        out[i].type = "AUDIO"
        => EpochOf(out[i].pcm, out[i].data) = FormatsBefore(out[i].pcm, i)

\* the rendezvous of stream p can still be entered: the empty slot is free, a
\* payload or a wake-up is posted on full, or a capture thread is between its
\* sem_wait on full and its sem_post on empty
SlotAvailable(p) ==
    \/ streams[p].capture_empty > 0
    \/ streams[p].capture_full > 0
    \/ \E w \in WorkerSlots :
         \/ wk[p][w].pc \in {"write", "post"}
         \/ wk[p][w].pc = "chk" /\ streams[p].capture_running

\* C21: in blocking mode, when a producer call returns ENOMEM after it has
\* waited on capture_empty, the empty slot is available again or full has been
\* posted, so the next producer call on the stream can pass its sem_wait
C21_EnomemLeavesSlot ==
    [][\A t \in Threads :
         (Return(t) /\ th[t].ret = "ENOMEM" /\ ~streams[th[t].pcm].mode_async)
         => SlotAvailable(th[t].pcm)]_vars

====
